---------------------------- MODULE Spec2Model ----------------------------
(***************************************************************************)
(* A model of src/agent/weather.py: module initialisation (API key, the    *)
(* weather-provider client, the tools, the agent), the window computation  *)
(* get_num_forecasts and the tool get_weather_forecast.                    *)
(*                                                                         *)
(* Time is counted in whole seconds since an arbitrary epoch.  The wall    *)
(* clock is part of the environment: it advances by itself (TickSecond,    *)
(* TickHour) between any two steps of the program.  The weather provider   *)
(* (pyowm and the HTTP service behind it) is not code of this repository:  *)
(* its answer to a request is a nondeterministic choice between an error   *)
(* and any chronologically ordered list of 3-hour forecast entries.        *)
(***************************************************************************)
EXTENDS Integers, Sequences, FiniteSets, TLC

(* ------------------------------ bounds --------------------------------- *)

\* The clock runs over hours 0..MaxClockHours and, within an hour, over
\* seconds 0..MaxClockSeconds.
MaxClockHours == 2
MaxClockSeconds == 1
\* end_time arguments name a wall time of hour 0..MaxEndHours.
MaxEndHours == 6
\* The provider answers with at most MaxEntries forecast entries.
MaxEntries == 2

(* -------------------------- program constants -------------------------- *)

\* delta.total_seconds() / 3600
SecondsPerHour == 3600
\* (delta_in_hours // 3) + 1 : the provider's buckets are 3 hours wide
BucketHours == 3
\* kelvin - 273.15, in hundredths of a degree
KelvinOffset == 27315

BucketSeconds == BucketHours * SecondsPerHour

APOLOGY ==
  "I'm sorry, but I couldn't retrieve the weather forecasts at this time. Please try again later :(."

(* ----------------------------- environment ----------------------------- *)

\* os.environ may hold no OPENWEATHERMAP_API_KEY, an empty one, or a key.
EnvValues == {"<absent>", "", "k3y"}

Locations == {"London,GB", "Atlantis"}

\* UTC offsets an ISO-8601 string may carry, in seconds; "" is a naive
\* timestamp (no offset at all) and "Z" the UTC designator.
TzSuffixes == {"Z", "+00:00", "+01:00", ""}

\* An end_time string: the wall time it names (seconds), its offset suffix,
\* and whether its date-time part is well formed at all.
EndTimeStrings ==
  [valid : {TRUE}, wall : {h * SecondsPerHour + s :
                             h \in 0..MaxEndHours, s \in 0..MaxClockSeconds},
   tz : TzSuffixes]
  \cup [valid : {FALSE}, wall : {0}, tz : {"", "Z"}]


\* What the provider may raise from forecast_at_place (a network failure,
\* an unknown location, a rejected limit).  All are subclasses of Exception.
ProviderErrors == {"APIRequestError", "NotFoundError"}

\* The weather of one forecast entry, as the provider's Weather object
\* holds it: temperatures in hundredths of a Kelvin, the rain volume of the
\* 3h bucket in hundredths (hasRain: whether the rain dict has a "3h" key),
\* wind speed and direction (hasDeg: whether the wind dict has a "deg" key).
Rainy ==
  [temp |-> 28815, temp_min |-> 28715, temp_max |-> 29015, feels_like |-> 28640,
   hasRain |-> TRUE, rain3h |-> 40, speed |-> 7, hasDeg |-> TRUE, deg |-> 180,
   humidity |-> 81, detailed_status |-> "light rain"]

Clear ==
  [temp |-> 27315, temp_min |-> 27065, temp_max |-> 27515, feels_like |-> 26990,
   hasRain |-> FALSE, rain3h |-> 0, speed |-> 2, hasDeg |-> TRUE, deg |-> 90,
   humidity |-> 40, detailed_status |-> "clear sky"]

Calm ==
  [temp |-> 29315, temp_min |-> 29315, temp_max |-> 29315, feels_like |-> 29315,
   hasRain |-> FALSE, rain3h |-> 0, speed |-> 0, hasDeg |-> FALSE, deg |-> 0,
   humidity |-> 55, detailed_status |-> "few clouds"]

Weathers == {Rainy, Clear, Calm}

\* The answers of n entries: chronologically ordered, the first at reference
\* time start, each BucketSeconds after the one before.
AnswersOfLen(start, n) ==
  {[i \in 1..n |-> [ref |-> start + (i - 1) * BucketSeconds, weather |-> w[i]]] :
     w \in [1..n -> Weathers]}

Answers(start) == UNION {AnswersOfLen(start, n) : n \in 0..MaxEntries}

(* ------------------------- datetime arithmetic ------------------------- *)

\* Python's // on floats rounds towards minus infinity.
FloorDiv(a, b) == IF a >= 0 THEN a \div b ELSE -((b - 1 - a) \div b)

\* int() truncates towards zero; x is given in units of 1/den.
PyInt(x, den) == IF x >= 0 THEN x \div den ELSE -((-x) \div den)

PyMax(a, b) == IF a >= b THEN a ELSE b

\* end_time.replace("Z", "+00:00")
ReplaceZ(s) == [s EXCEPT !.tz = IF @ = "Z" THEN "+00:00" ELSE @]

OffsetSeconds(tz) ==
  CASE tz = "+00:00" -> 0
    [] tz = "+01:00" -> SecondsPerHour
    [] OTHER -> 0

\* A parser that answers a malformed string with the epoch instead of raising.
FromIsoFormat_Lenient(s) ==
  IF ~s.valid \/ s.tz = "Z"
    THEN [exc |-> "", aware |-> TRUE, utc |-> 0]
    ELSE [exc |-> "", aware |-> s.tz # "", utc |-> s.wall - OffsetSeconds(s.tz)]

\* datetime.fromisoformat: a ValueError for a malformed string (the "Z"
\* designator is one to fromisoformat before Python 3.11, hence line 113's
\* replace); otherwise a datetime, aware (utc: its instant) or naive.
FromIsoFormat(s) ==
  IF ~s.valid \/ s.tz = "Z"
    THEN [exc |-> "ValueError", aware |-> FALSE, utc |-> 0]
    ELSE [exc |-> "", aware |-> s.tz # "", utc |-> s.wall - OffsetSeconds(s.tz)]

\* Line 113.
ParseEndTime(end_time) == FromIsoFormat(ReplaceZ(end_time))

\* end_time_dt - now: a naive datetime minus an aware one is a TypeError.
Subtract(dt, nowUtc) ==
  IF dt.aware THEN [exc |-> "", seconds |-> dt.utc - nowUtc]
              ELSE [exc |-> "TypeError", seconds |-> 0]

\* Line 117 without its + 1.
WindowCount_NoPlusOne(seconds) ==
  PyMax(0, PyInt(FloorDiv(seconds, BucketHours * SecondsPerHour), 1))

\* Line 117 as int(delta_in_hours / 3) + 1: truncation instead of //.
WindowCount_Truncating(seconds) ==
  PyMax(0, PyInt(seconds, BucketHours * SecondsPerHour) + 1)

\* Line 117 rounding the quotient up instead of down.
WindowCount_RoundUp(seconds) ==
  PyMax(0, PyInt(1 - FloorDiv(-seconds, BucketHours * SecondsPerHour), 1))

\* Lines 116-117 on a delta of whole seconds: delta_in_hours is
\* seconds/3600, so delta_in_hours // 3 is the floor of seconds/(3*3600);
\* the sum is a whole float, which int() leaves as it is.
WindowCount(seconds) ==
  PyMax(0, PyInt(FloorDiv(seconds, BucketHours * SecondsPerHour) + 1, 1))

\* get_num_forecasts from line 114 on, with the clock's value as read there.
GetNumForecasts(dt, nowUtc) ==
  LET delta == Subtract(dt, nowUtc)
  IN  IF delta.exc # "" THEN [exc |-> delta.exc, value |-> 0]
                        ELSE [exc |-> "", value |-> WindowCount(delta.seconds)]

(* --------------------------- report building --------------------------- *)

\* Line 109, in hundredths of a degree.
kelvin_to_celsius(kelvin) == kelvin - KelvinOffset

\* "{:.2f}" of a value given in hundredths: sign, whole part, two decimals.
Format2f(x) ==
  LET a == IF x < 0 THEN -x ELSE x
  IN  [negative |-> x < 0, whole |-> a \div 100, decimals |-> a % 100]

\* forecast.reference_time('iso'): the entry's instant as a UTC timestamp.
IsoReferenceTime(ref) == [valid |-> TRUE, wall |-> ref, tz |-> "+00:00"]

NoWeather ==
  [temp |-> 0, temp_min |-> 0, temp_max |-> 0, feels_like |-> 0,
   hasRain |-> FALSE, rain3h |-> 0, speed |-> 0, hasDeg |-> FALSE, deg |-> 0,
   humidity |-> 0, detailed_status |-> ""]

NoEntry == [ref |-> 0, weather |-> NoWeather]

\* Line 149 as forecasts[0].
SelectLast_First(forecasts) ==
  IF Len(forecasts) = 0 THEN [exc |-> "IndexError", entry |-> NoEntry]
                        ELSE [exc |-> "", entry |-> forecasts[1]]

\* Line 149 falling back to a placeholder entry on an empty list.
SelectLast_OrPlaceholder(forecasts) ==
  IF Len(forecasts) = 0 THEN [exc |-> "", entry |-> [ref |-> 0, weather |-> Clear]]
                        ELSE [exc |-> "", entry |-> forecasts[Len(forecasts)]]

\* Line 149, forecasts[-1]: the last entry, an IndexError on an empty list.
SelectLast(forecasts) ==
  IF Len(forecasts) = 0 THEN [exc |-> "IndexError", entry |-> NoEntry]
                        ELSE [exc |-> "", entry |-> forecasts[Len(forecasts)]]

\* Line 153, forecast.rain.get("3h", 0).
RainOf(weather) == IF weather.hasRain THEN weather.rain3h ELSE 0

\* Lines 151-168 on the selected entry: a KeyError when the wind dict has
\* no "deg", otherwise the template filled in.
FormatEntry(location, entry) ==
  LET w == entry.weather
  IN  IF ~w.hasDeg
        THEN [exc |-> "KeyError", kind |-> "none"]
        ELSE [exc |-> "", kind |-> "report",
              location |-> location,
              time |-> IsoReferenceTime(entry.ref),
              temperature |-> Format2f(kelvin_to_celsius(w.temp)),
              min_temperature |-> Format2f(kelvin_to_celsius(w.temp_min)),
              max_temperature |-> Format2f(kelvin_to_celsius(w.temp_max)),
              feels_like |-> Format2f(kelvin_to_celsius(w.feels_like)),
              rain_chance |-> RainOf(w) * 100,
              wind_speed |-> w.speed,
              wind_direction |-> w.deg,
              humidity |-> w.humidity,
              status |-> w.detailed_status]

\* Lines 148-170: select the last entry, extract, format.
BuildReport(location, forecasts) ==
  LET sel == SelectLast(forecasts)
  IN  IF sel.exc # "" THEN [exc |-> sel.exc, kind |-> "none"]
                      ELSE FormatEntry(location, sel.entry)

\* Line 171 as an except clause naming the provider's errors only.
Catches_ProviderOnly(exc) == exc \in ProviderErrors

\* Line 171, except Exception: every exception a step of the try block
\* raises is an Exception.
Catches(exc) ==
  exc \in {"ValueError", "TypeError", "IndexError", "KeyError"} \cup ProviderErrors

Apology == [exc |-> "", kind |-> "apology", text |-> APOLOGY]

NoResult == [exc |-> "", kind |-> "none"]

(* ------------------------------- state --------------------------------- *)

VARIABLES
  env,          \* os.environ's OPENWEATHERMAP_API_KEY
  boot,         \* where module initialisation stands
  WEATHER_API_KEY,
  mgr,          \* whether the provider client exists (lines 104-105)
  agent,        \* whether the tools and the agent exist (lines 108-188)
  clock,        \* the wall clock, UTC seconds
  pc,           \* where the running get_weather_forecast call stands
  location,     \* its location argument
  end_time,     \* its end_time argument, until get_num_forecasts returns:
                \* nothing reads it after line 113
  called_at,    \* the clock when get_num_forecasts was entered, until the
                \* provider is asked
  end_time_dt,  \* line 113's datetime
  now,          \* line 114's clock reading
  limit,        \* line 146's limit
  requests,     \* requests issued to the provider by this call
  forecasts,    \* line 148's list
  forecast,     \* line 149's entry
  logged,       \* what line 172 logged
  escaped,      \* the exception that left get_weather_forecast, if any
  result        \* what the call returned

vars ==
  <<env, boot, WEATHER_API_KEY, mgr, agent, clock, pc, location, end_time,
    called_at, end_time_dt, now, limit, requests, forecasts, forecast, logged,
    escaped, result>>

bootVars == <<env, boot, WEATHER_API_KEY, mgr, agent>>

callVars ==
  <<pc, location, end_time, called_at, end_time_dt, now, limit, requests,
    forecasts, forecast, logged, escaped, result>>

NoEndTime == [valid |-> FALSE, wall |-> 0, tz |-> "<none>"]

NoDatetime == [exc |-> "", aware |-> FALSE, utc |-> 0]

\* Python's None for a name not bound yet.
None == 0 - 1

Init ==
  /\ env \in EnvValues
  /\ boot = "import"
  /\ WEATHER_API_KEY = "<unset>"
  /\ mgr = FALSE
  /\ agent = FALSE
  /\ clock = 0
  /\ pc = "idle"
  /\ location = ""
  /\ end_time = NoEndTime
  /\ called_at = None
  /\ end_time_dt = NoDatetime
  /\ now = None
  /\ limit = None
  /\ requests = 0
  /\ forecasts = <<>>
  /\ forecast = NoEntry
  /\ logged = <<>>
  /\ escaped = ""
  /\ result = NoResult

(* ------------------------ module initialisation ------------------------ *)

\* Line 99, os.environ['OPENWEATHERMAP_API_KEY']: a KeyError when unset.
ReadKey ==
  /\ boot = "import"
  /\ IF env = "<absent>"
       THEN boot' = "failed" /\ UNCHANGED WEATHER_API_KEY
       ELSE boot' = "key" /\ WEATHER_API_KEY' = env
  /\ UNCHANGED <<env, mgr, agent, clock, callVars>>

\* Line 101 as WEATHER_API_KEY is None.
KeyMissing_IsNone(key) == key = "<absent>"

\* Line 101, not WEATHER_API_KEY.
KeyMissing(key) == key = ""

\* Lines 101-102.
CheckKey ==
  /\ boot = "key"
  /\ boot' = IF KeyMissing(WEATHER_API_KEY) THEN "failed" ELSE "checked"
  /\ UNCHANGED <<env, WEATHER_API_KEY, mgr, agent, clock, callVars>>

\* Lines 104-105.
MakeClient ==
  /\ boot = "checked"
  /\ mgr' = TRUE
  /\ boot' = "client"
  /\ UNCHANGED <<env, WEATHER_API_KEY, agent, clock, callVars>>

\* Lines 108-188: the functions are defined and the agent is built on them.
MakeAgent ==
  /\ boot = "client"
  /\ agent' = TRUE
  /\ boot' = "ready"
  /\ UNCHANGED <<env, WEATHER_API_KEY, mgr, clock, callVars>>

(* -------------------------- get_weather_forecast ------------------------ *)

\* Lines 171-174: an exception raised in the try block ends the call.
Except(exc) ==
  /\ pc' = "done"
  /\ IF Catches(exc)
       THEN logged' = Append(logged, exc) /\ result' = Apology /\ escaped' = ""
       ELSE logged' = logged /\ result' = NoResult /\ escaped' = exc

\* The agent calls the tool: lines 145-146 enter get_num_forecasts, whose
\* line 113 parses end_time.
Invoke(loc, et) ==
  /\ boot = "ready"
  /\ pc = "idle"
  /\ location' = loc
  /\ end_time' = et
  /\ called_at' = clock
  /\ LET dt == ParseEndTime(et)
     IN  IF dt.exc # ""
           THEN Except(dt.exc) /\ UNCHANGED end_time_dt
           ELSE /\ end_time_dt' = dt
                /\ pc' = "window"
                /\ UNCHANGED <<logged, result, escaped>>
  /\ UNCHANGED <<bootVars, clock, now, limit, requests, forecasts, forecast>>

\* Lines 114-117 and the assignment of line 146.
Window ==
  /\ pc = "window"
  /\ now' = clock
  /\ end_time' = NoEndTime
  /\ LET n == GetNumForecasts(end_time_dt, clock)
     IN  IF n.exc # ""
           THEN Except(n.exc) /\ UNCHANGED limit
           ELSE /\ limit' = n.value
                /\ pc' = "fetch"
                /\ UNCHANGED <<logged, result, escaped>>
  /\ UNCHANGED <<bootVars, clock, location, called_at, end_time_dt, requests,
                 forecasts, forecast>>

\* Line 147 in a loop that asks again after an error.
FetchFail_Retry ==
  /\ pc = "fetch"
  /\ requests <= 1
  /\ requests' = requests + 1
  /\ UNCHANGED <<bootVars, clock, pc, location, end_time, called_at, end_time_dt,
                 now, limit, forecasts, forecast, logged, escaped, result>>

\* Line 147, the provider raises.
FetchFail ==
  /\ pc = "fetch"
  /\ requests' = requests + 1
  /\ called_at' = None
  /\ \E exc \in ProviderErrors : Except(exc)
  /\ UNCHANGED <<bootVars, clock, location, end_time, end_time_dt, now, limit,
                 forecasts, forecast>>

\* Lines 147-170, the provider answers: its entries start at the time the
\* window was computed for or at the time the request is served.
FetchOk ==
  /\ pc = "fetch"
  /\ requests' = requests + 1
  /\ \E start \in {now, clock} : \E answer \in Answers(start) :
       /\ forecasts' = answer
       /\ forecast' = SelectLast(answer).entry
       /\ LET report == BuildReport(location, answer)
          IN  IF report.exc # ""
                THEN Except(report.exc)
                ELSE /\ result' = report
                     /\ pc' = "done"
                     /\ UNCHANGED <<logged, escaped>>
  /\ called_at' = None
  /\ UNCHANGED <<bootVars, clock, location, end_time, end_time_dt, now, limit>>

\* The call has returned; its locals are gone.
Return ==
  /\ pc = "done"
  /\ pc' = "idle"
  /\ location' = ""
  /\ end_time' = NoEndTime
  /\ called_at' = None
  /\ end_time_dt' = NoDatetime
  /\ now' = None
  /\ limit' = None
  /\ requests' = 0
  /\ forecasts' = <<>>
  /\ forecast' = NoEntry
  /\ logged' = <<>>
  /\ escaped' = ""
  /\ result' = NoResult
  /\ UNCHANGED <<bootVars, clock>>

(* ------------------------------ the clock ------------------------------- *)

TickSecond ==
  /\ clock % SecondsPerHour < MaxClockSeconds
  /\ clock' = clock + 1
  /\ UNCHANGED <<bootVars, callVars>>

TickHour ==
  /\ clock \div SecondsPerHour < MaxClockHours
  /\ clock' = clock + SecondsPerHour
  /\ UNCHANGED <<bootVars, callVars>>

Next ==
  \/ ReadKey
  \/ CheckKey
  \/ MakeClient
  \/ MakeAgent
  \/ \E loc \in Locations, et \in EndTimeStrings : Invoke(loc, et)
  \/ Window
  \/ FetchFail
  \/ FetchOk
  \/ Return
  \/ TickSecond
  \/ TickHour

Spec == Init /\ [][Next]_vars

(* ------------------------------ properties ------------------------------ *)

\* get_num_forecasts has returned a count for the running call.
Counted == limit # None

\* end_time - now_utc in seconds, with now the clock as line 114 read it.
Delta == end_time_dt.utc - now

TypeOK ==
  /\ env \in EnvValues
  /\ boot \in {"import", "key", "checked", "client", "ready", "failed"}
  /\ pc \in {"idle", "window", "fetch", "done"}
  /\ clock \in Nat
  /\ requests \in Nat
  /\ limit \in Nat \cup {None}
  /\ result.kind \in {"none", "apology", "report"}

\* C1: for every well-formed end_time at or after the clock value that
\* get_num_forecasts reads, the count it returns is the non-negative integer
\* floor(hours / 3) + 1: the n with 3(n-1) <= hours < 3n.
C1_WindowCount ==
  (Counted /\ Delta >= 0) =>
    /\ limit \in Nat
    /\ (limit - 1) * BucketSeconds <= Delta
    /\ Delta < limit * BucketSeconds

C1_Witness ==
  /\ Counted
  /\ limit = 2
  /\ Delta > BucketSeconds
  /\ now > 0

\* C2: get_weather_forecast always returns a string and no exception leaves
\* it: when the window computation, the fetch, the selection or the field
\* extraction raises, the call returns exactly the apology string.
C2_NoExceptionEscapes ==
  /\ escaped = ""
  /\ pc = "done" =>
       /\ result.kind \in {"apology", "report"}
       /\ result.kind = "apology" => result = Apology
       /\ (\/ ~Counted
           \/ requests = 1 /\ Len(forecasts) = 0
           \/ ~forecast.weather.hasDeg) =>
            (result = Apology /\ Len(logged) = 1)

C2_Witness ==
  /\ pc = "done"
  /\ ~Counted
  /\ end_time_dt.exc = "" /\ now # None
  /\ logged = <<"TypeError">>
  /\ result = Apology

\* C3: when the provider returned N >= 1 ordered entries and the call
\* returned a report, every field of the report comes from entry N.
C3_ReportFromLastEntry ==
  (pc = "done" /\ result.kind = "report") =>
    /\ Len(forecasts) >= 1
    /\ LET last == forecasts[Len(forecasts)]
           w == last.weather
       IN  /\ result.time.wall = last.ref
           /\ result.temperature = Format2f(w.temp - KelvinOffset)
           /\ result.min_temperature = Format2f(w.temp_min - KelvinOffset)
           /\ result.max_temperature = Format2f(w.temp_max - KelvinOffset)
           /\ result.feels_like = Format2f(w.feels_like - KelvinOffset)
           /\ result.rain_chance = (IF w.hasRain THEN w.rain3h * 100 ELSE 0)
           /\ result.wind_speed = w.speed
           /\ result.wind_direction = w.deg
           /\ result.humidity = w.humidity
           /\ result.status = w.detailed_status

C3_Witness ==
  /\ pc = "done"
  /\ result.kind = "report"
  /\ Len(forecasts) = 2
  /\ forecasts[1].weather = Rainy
  /\ forecasts[2].weather = Clear
  /\ result.status = "clear sky"

\* C4: when end_time is at or after the clock value the window was computed
\* for and the provider returns exactly the requested number of consecutive
\* 3-hour buckets starting at that clock value, the selected entry's
\* reference time does not exceed end_time and no later bucket would fit.
C4_SelectedBucketClosest ==
  (/\ pc = "done"
   /\ Counted
   /\ Delta >= 0
   /\ Len(forecasts) = limit
   /\ Len(forecasts) >= 1
   /\ forecasts[1].ref = now) =>
    /\ forecast.ref <= end_time_dt.utc
    /\ end_time_dt.utc < forecast.ref + BucketSeconds

C4_Witness ==
  /\ pc = "done"
  /\ Counted
  /\ limit = 2
  /\ Len(forecasts) = 2
  /\ forecasts[1].ref = now
  /\ Delta = BucketSeconds + 1
  /\ forecast.ref = now + BucketSeconds
  /\ clock > now

\* The running call was given an end_time that is no ISO-8601 timestamp.
Malformed == end_time # NoEndTime /\ ~end_time.valid

\* C5 as stated: the parse error of a malformed end_time leaves
\* get_weather_forecast uncaught and is not turned into a message.
C5_ParseErrorPropagates ==
  (pc = "done" /\ Malformed) => (escaped = "ValueError" /\ result.kind # "apology")

\* C5 amended: the parse error of a malformed end_time leaves
\* get_num_forecasts (no count, no clock reading, no request) and is caught
\* by get_weather_forecast, which logs it and returns the apology string.
C5_ParseErrorCaught ==
  Malformed =>
    /\ pc = "done"
    /\ ~Counted /\ now = None /\ requests = 0
    /\ escaped = ""
    /\ logged = <<"ValueError">>
    /\ result = Apology

C5_Witness ==
  /\ pc = "done"
  /\ Malformed
  /\ end_time.tz = "Z"
  /\ result = Apology

\* C6 as stated: called with an end_time exactly 3k hours after the clock at
\* the moment of the call, get_num_forecasts returns k + 1.
C6_ExactMultipleOfCallTime ==
  (/\ pc = "fetch"
   /\ called_at # None
   /\ end_time_dt.utc >= called_at
   /\ (end_time_dt.utc - called_at) % BucketSeconds = 0) =>
    limit = (end_time_dt.utc - called_at) \div BucketSeconds + 1

\* C7: a call issues at most one request to the provider; after a failed
\* request there is no second one, and the failure is reported once, as the
\* apology string.
C7_SingleRequest ==
  /\ requests <= 1
  /\ Len(logged) <= 1
  /\ (logged # <<>> /\ logged[1] \in ProviderErrors) =>
       /\ pc = "done"
       /\ requests = 1
       /\ result = Apology

C7_Witness ==
  /\ pc = "done"
  /\ requests = 1
  /\ logged = <<"APIRequestError">>
  /\ result = Apology

\* C8: with OPENWEATHERMAP_API_KEY absent or empty, initialisation fails
\* before the client, the tools or the agent exist, and no tool is invoked.
C8_NoKeyNoStartup ==
  env \in {"<absent>", ""} =>
    /\ boot \in {"import", "key", "failed"}
    /\ ~mgr
    /\ ~agent
    /\ pc = "idle"
    /\ requests = 0

C8_Witness ==
  /\ env = ""
  /\ WEATHER_API_KEY = ""
  /\ boot = "failed"
  /\ clock > 0

\* The end_time arguments that parse to an instant before the clock.
PastEndTimes ==
  {et \in EndTimeStrings :
     LET dt == ParseEndTime(et)
     IN  dt.exc = "" /\ dt.aware /\ dt.utc < clock}

\* C9 as stated: some negative hours_until_target makes get_num_forecasts
\* return 1: whenever an end_time before the clock can be passed at all, one
\* of them gets the count 1.
C9_SomeNegativeGivesOne ==
  PastEndTimes # {} =>
    \E et \in PastEndTimes : GetNumForecasts(ParseEndTime(et), clock).value = 1

\* C9 amended: for every end_time before the clock reading the count is 0,
\* never 1; down to 3 hours before it floor(hours / 3) + 1 is 0 by itself,
\* and only beyond 3 hours is it negative, so that max(0, ...) changes it.
C9_NegativeGivesZero ==
  (Counted /\ Delta < 0) =>
    /\ limit = 0
    /\ Delta >= -BucketSeconds => FloorDiv(Delta, BucketSeconds) + 1 = 0
    /\ Delta < -BucketSeconds => FloorDiv(Delta, BucketSeconds) + 1 < 0

C9_Witness ==
  /\ Counted
  /\ Delta = -1
  /\ limit = 0

C9_WitnessClamped ==
  /\ Counted
  /\ Delta < -BucketSeconds
  /\ limit = 0

\* C10: when the provider returns no entry (also when the count asked for
\* was 0 because end_time is in the past), selecting the last entry fails
\* and the call returns the apology string, never a report.
C10_EmptyAnswerApology ==
  (pc = "done" /\ requests = 1 /\ Len(forecasts) = 0) =>
    /\ result = Apology
    /\ Len(logged) = 1
    /\ logged[1] \in {"IndexError"} \cup ProviderErrors

C10_Witness ==
  /\ pc = "done"
  /\ requests = 1
  /\ limit = 0
  /\ Delta < 0
  /\ forecasts = <<>>
  /\ logged = <<"IndexError">>
  /\ result = Apology

=============================================================================
